---- MODULE Spec2Model ----
(***************************************************************************)
(* Model of the sortby crate (src/src/lib.rs): the SortBy iterator adapter *)
(* that drains and stably sorts its upstream iterator on the first pull,   *)
(* with a comparator composed from a chain of key-extraction closures.     *)
(***************************************************************************)
EXTENDS Integers, Sequences, FiniteSets, TLC

\* ---------------------------------------------------------------- bounds
\* longest upstream sequence
MaxLen == 3
\* longest chain of keys (sort_by plus then_sort_by calls)
MaxKeys == 2
\* next() calls made after the one that first returned None
MaxRepeats == 1

\* ------------------------------------------------------- items and keys
\* The values a key-extraction function returns (U: PartialOrd): ordered
\* values, and one that partial_cmp cannot order against anything (a NaN).
Val(n) == [nan |-> FALSE, v |-> n]
NaN == [nan |-> TRUE, v |-> 0]

\* The key-extraction closures of the callers: |p| p.age and |p| p.name.
KeyFns == {"age", "name"}

\* The items the upstream source may hold, as <<age, name>>: two that tie on
\* age and differ on name, one that the two keys order opposite ways against
\* another, and one whose name cannot be ordered.
Persons ==
    {<<Val(0), Val(0)>>, <<Val(0), Val(1)>>, <<Val(1), Val(0)>>, <<Val(0), NaN>>}

\* The upstream sequences: the item at position i carries its arrival position.
Inputs ==
    UNION {{[i \in 1..n |-> [id |-> i, age |-> s[i][1], name |-> s[i][2]]] :
              s \in [1..n -> Persons]} : n \in 0..MaxLen}

\* Option<T>
None == <<>>
Some(x) == <<x>>

\* ------------------------------------------------------------ comparator
\* PartialOrd::partial_cmp on key values
partial_cmp(x, y) ==
    IF x.nan \/ y.nan THEN None
    ELSE IF x.v < y.v THEN Some("Less")
    ELSE IF x.v > y.v THEN Some("Greater")
    ELSE Some("Equal")

\* Option::unwrap_or
unwrap_or(o, d) == IF o = None THEN d ELSE o[1]

\* What a comparator call returns: the Ordering, and the number of
\* key-extraction calls it made.
\* sort_by with an unorderable pair taken as Less instead of Equal.
sort_by_closure_nan_less(f, a, b) ==
    [ord |-> unwrap_or(partial_cmp(a[f], b[f]), "Less"), evals |-> 2]

\* closure boxed by sort_by: f(a).partial_cmp(&f(b)).unwrap_or(Equal)
sort_by_closure(f, a, b) ==
    [ord |-> unwrap_or(partial_cmp(a[f], b[f]), "Equal"), evals |-> 2]

\* sort_by_desc without the operands swapped.
sort_by_desc_closure_unswapped(f, a, b) ==
    [ord |-> unwrap_or(partial_cmp(a[f], b[f]), "Equal"), evals |-> 2]

\* closure boxed by sort_by_desc: f(b).partial_cmp(&f(a)).unwrap_or(Equal)
sort_by_desc_closure(f, a, b) ==
    [ord |-> unwrap_or(partial_cmp(b[f], a[f]), "Equal"), evals |-> 2]

\* then_sort_by with the priorities exchanged: the new key decides first.
then_sort_by_closure_newfirst(prev, f, a, b) ==
    LET c == unwrap_or(partial_cmp(a[f], b[f]), "Equal")
    IN  IF c = "Equal" THEN [ord |-> prev.ord, evals |-> prev.evals + 2]
        ELSE [ord |-> c, evals |-> prev.evals + 2]

\* closure boxed by then_sort_by; prev is the result of (prev)(a, b)
then_sort_by_closure(prev, f, a, b) ==
    IF prev.ord = "Less" THEN [ord |-> "Less", evals |-> prev.evals]
    ELSE IF prev.ord = "Greater" THEN [ord |-> "Greater", evals |-> prev.evals]
    ELSE [ord |-> unwrap_or(partial_cmp(a[f], b[f]), "Equal"),
          evals |-> prev.evals + 2]

\* closure boxed by then_sort_by_desc
then_sort_by_desc_closure(prev, f, a, b) ==
    IF prev.ord = "Less" THEN [ord |-> "Less", evals |-> prev.evals]
    ELSE IF prev.ord = "Greater" THEN [ord |-> "Greater", evals |-> prev.evals]
    ELSE [ord |-> unwrap_or(partial_cmp(b[f], a[f]), "Equal"),
          evals |-> prev.evals + 2]

\* CompareFn: the boxed closure, held as the chain of keys it was built
\* from, [f, desc] per key, first key first. Calling it unwinds the nesting.
RECURSIVE call(_, _, _)
call(cmp, a, b) ==
    LET n == Len(cmp)
        key == cmp[n]
    IN  IF n = 1
        THEN IF key.desc THEN sort_by_desc_closure(key.f, a, b)
                         ELSE sort_by_closure(key.f, a, b)
        ELSE LET prev == call(SubSeq(cmp, 1, n - 1), a, b)
             IN  IF key.desc THEN then_sort_by_desc_closure(prev, key.f, a, b)
                             ELSE then_sort_by_closure(prev, key.f, a, b)

\* ------------------------------------------------------------------ sort
\* The sort closure of an unstable sort: equal elements may pass each other.
is_less_or_equal(cmp, a, b) ==
    LET c == call(cmp, a, b) IN [less |-> c.ord # "Greater", evals |-> c.evals]

\* The closure handed to slice::sort_by, |a, b| (compare)(a, b), as the sort
\* uses it: a is moved before b only when it compares Less.
is_less(cmp, a, b) ==
    LET c == call(cmp, a, b) IN [less |-> c.ord = "Less", evals |-> c.evals]

\* The stable sort of slice::sort_by on a short slice: each element in turn
\* is shifted left past the elements it is less than. insert_tail finds the
\* position after which x lands among v[1..j].
RECURSIVE insert_tail(_, _, _, _)
insert_tail(v, x, j, cmp) ==
    IF j = 0 THEN [pos |-> 0, evals |-> 0]
    ELSE LET c == is_less(cmp, x, v[j])
         IN  IF c.less
             THEN LET r == insert_tail(v, x, j - 1, cmp)
                  IN  [pos |-> r.pos, evals |-> r.evals + c.evals]
             ELSE [pos |-> j, evals |-> c.evals]

RECURSIVE insertion_sort(_, _, _)
insertion_sort(v, i, cmp) ==
    IF i <= 1 THEN [vec |-> v, evals |-> 0]
    ELSE LET p == insertion_sort(v, i - 1, cmp)
             x == p.vec[i]
             t == insert_tail(p.vec, x, i - 1, cmp)
         IN  [vec |-> SubSeq(p.vec, 1, t.pos) \o <<x>> \o
                      SubSeq(p.vec, t.pos + 1, i - 1) \o
                      SubSeq(p.vec, i + 1, Len(v)),
              evals |-> p.evals + t.evals]

\* vec.sort_by(|a, b| (compare)(a, b))
slice_sort_by(v, cmp) == insertion_sort(v, Len(v), cmp)

\* collect() stopping one item short of the end of the source.
collect_short(src) ==
    [vec |-> SubSeq(src, 1, Len(src) - 1), pulls |-> Len(src)]

\* iter.collect(): pulls the source until it returns None
collect(src) == [vec |-> src, pulls |-> Len(src) + 1]

\* ------------------------------------------------------------- IterState
Unsorted(opt) == [tag |-> "Unsorted", src |-> opt, buf |-> <<>>]
Sorted(v) == [tag |-> "Sorted", src |-> None, buf |-> v]

\* IterState::unwrap_sorted: the buffer, or a panic on Unsorted
unwrap_sorted(it) ==
    IF it.tag = "Unsorted" THEN [panic |-> TRUE, buf |-> <<>>]
    ELSE [panic |-> FALSE, buf |-> it.buf]

\* vec::IntoIter::next on the remaining buffer
into_iter_next(buf) ==
    IF buf = <<>> THEN [ret |-> None, buf |-> buf]
    ELSE [ret |-> Some(Head(buf)), buf |-> Tail(buf)]

\* ------------------------------------------------------------ operations
\* Each operation maps the adapter it is called on to its result:
\* the adapter's fields afterwards, what is returned, the key-extraction
\* calls and source pulls it made, and whether it panicked.
Panic(self) ==
    [iter |-> self.iter, compare |-> self.compare, ret |-> None, vec |-> <<>>,
     evals |-> 0, pulls |-> 0, panic |-> TRUE]

\* SortByIteratorExt::sort_by
sort_by(src, f) ==
    [iter |-> Unsorted(Some(src)), compare |-> <<[f |-> f, desc |-> FALSE]>>,
     evals |-> 0, pulls |-> 0]

\* SortByIteratorExt::sort_by_desc
sort_by_desc(src, f) ==
    [iter |-> Unsorted(Some(src)), compare |-> <<[f |-> f, desc |-> TRUE]>>,
     evals |-> 0, pulls |-> 0]

\* then_sort_by draining and sorting at once instead of on the first pull.
then_sort_by_eager(self, f) ==
    LET cmp == Append(self.compare, [f |-> f, desc |-> FALSE])
    IN  IF self.iter.tag = "Unsorted" /\ self.iter.src # None
        THEN LET c == collect(self.iter.src[1])
                 s == slice_sort_by(c.vec, cmp)
             IN  [iter |-> Sorted(s.vec), compare |-> cmp,
                  evals |-> s.evals, pulls |-> c.pulls]
        ELSE [iter |-> self.iter, compare |-> cmp, evals |-> 0, pulls |-> 0]

\* then_sort_by sorting an already staged buffer again under the longer chain.
then_sort_by_resort(self, f) ==
    LET cmp == Append(self.compare, [f |-> f, desc |-> FALSE])
    IN  IF self.iter.tag = "Sorted"
        THEN LET s == slice_sort_by(self.iter.buf, cmp)
             IN  [iter |-> Sorted(s.vec), compare |-> cmp,
                  evals |-> s.evals, pulls |-> 0]
        ELSE [iter |-> self.iter, compare |-> cmp, evals |-> 0, pulls |-> 0]

\* SortBy::then_sort_by
then_sort_by(self, f) ==
    [iter |-> self.iter, compare |-> Append(self.compare, [f |-> f, desc |-> FALSE]),
     evals |-> 0, pulls |-> 0]

\* then_sort_by_desc wrapping the closures the other way round: the new key
\* is asked first and the earlier keys only break its ties.
then_sort_by_desc_outermost(self, f) ==
    [iter |-> self.iter, compare |-> <<[f |-> f, desc |-> TRUE]>> \o self.compare,
     evals |-> 0, pulls |-> 0]

\* SortBy::then_sort_by_desc
then_sort_by_desc(self, f) ==
    [iter |-> self.iter, compare |-> Append(self.compare, [f |-> f, desc |-> TRUE]),
     evals |-> 0, pulls |-> 0]

\* next() returning early on an empty source, after the source was taken
\* and before the state is set to Sorted.
next_empty_early(self) ==
    IF self.iter.tag = "Unsorted"
    THEN IF self.iter.src = None THEN Panic(self)
         ELSE LET c == collect(self.iter.src[1])
                  s == slice_sort_by(c.vec, self.compare)
                  n == into_iter_next(s.vec)
              IN  [iter |-> IF c.vec = <<>> THEN Unsorted(None) ELSE Sorted(n.buf),
                   compare |-> self.compare, ret |-> n.ret, vec |-> <<>>,
                   evals |-> s.evals, pulls |-> c.pulls, panic |-> FALSE]
    ELSE LET n == into_iter_next(self.iter.buf)
         IN  [iter |-> Sorted(n.buf), compare |-> self.compare,
              ret |-> n.ret, vec |-> <<>>,
              evals |-> 0, pulls |-> 0, panic |-> FALSE]

\* next() asking the source for more once the buffer is staged.
next_repull(self) ==
    IF self.iter.tag = "Unsorted"
    THEN IF self.iter.src = None THEN Panic(self)
         ELSE LET c == collect(self.iter.src[1])
                  s == slice_sort_by(c.vec, self.compare)
                  n == into_iter_next(s.vec)
              IN  [iter |-> Sorted(n.buf), compare |-> self.compare,
                   ret |-> n.ret, vec |-> <<>>,
                   evals |-> s.evals, pulls |-> c.pulls, panic |-> FALSE]
    ELSE LET n == into_iter_next(self.iter.buf)
         IN  [iter |-> Sorted(n.buf), compare |-> self.compare,
              ret |-> n.ret, vec |-> <<>>,
              evals |-> 0, pulls |-> 1, panic |-> FALSE]

\* next() without the assignment of IterState::Sorted before unwrap_sorted.
next_unassigned(self) ==
    IF self.iter.tag = "Unsorted"
    THEN IF self.iter.src = None THEN Panic(self)
         ELSE LET c == collect(self.iter.src[1])
                  s == slice_sort_by(c.vec, self.compare)
                  u == unwrap_sorted(Unsorted(None))
                  n == into_iter_next(u.buf)
              IN  IF u.panic THEN Panic(self)
                  ELSE [iter |-> Sorted(n.buf), compare |-> self.compare,
                        ret |-> n.ret, vec |-> <<>>,
                        evals |-> s.evals, pulls |-> c.pulls, panic |-> FALSE]
    ELSE LET n == into_iter_next(self.iter.buf)
         IN  [iter |-> Sorted(n.buf), compare |-> self.compare,
              ret |-> n.ret, vec |-> <<>>,
              evals |-> 0, pulls |-> 0, panic |-> FALSE]

\* next() falling back to Unsorted once the buffer has run out.
next_restart(self) ==
    IF self.iter.tag = "Unsorted"
    THEN IF self.iter.src = None THEN Panic(self)
         ELSE LET c == collect(self.iter.src[1])
                  s == slice_sort_by(c.vec, self.compare)
                  n == into_iter_next(s.vec)
              IN  [iter |-> Sorted(n.buf), compare |-> self.compare,
                   ret |-> n.ret, vec |-> <<>>,
                   evals |-> s.evals, pulls |-> c.pulls, panic |-> FALSE]
    ELSE LET n == into_iter_next(self.iter.buf)
         IN  [iter |-> IF n.ret = None THEN Unsorted(None) ELSE Sorted(n.buf),
              compare |-> self.compare, ret |-> n.ret, vec |-> <<>>,
              evals |-> 0, pulls |-> 0, panic |-> FALSE]

\* next() taking the first element of the sorted buffer by index, which
\* panics on an empty buffer.
next_index_first(self) ==
    IF self.iter.tag = "Unsorted"
    THEN IF self.iter.src = None THEN Panic(self)
         ELSE LET c == collect(self.iter.src[1])
                  s == slice_sort_by(c.vec, self.compare)
              IN  IF s.vec = <<>> THEN Panic(self)
                  ELSE [iter |-> Sorted(Tail(s.vec)), compare |-> self.compare,
                        ret |-> Some(Head(s.vec)), vec |-> <<>>,
                        evals |-> s.evals, pulls |-> c.pulls, panic |-> FALSE]
    ELSE LET n == into_iter_next(self.iter.buf)
         IN  [iter |-> Sorted(n.buf), compare |-> self.compare,
              ret |-> n.ret, vec |-> <<>>,
              evals |-> 0, pulls |-> 0, panic |-> FALSE]

\* <SortBy as Iterator>::next
next(self) ==
    IF self.iter.tag = "Unsorted"
    THEN IF self.iter.src = None THEN Panic(self)
         ELSE LET c == collect(self.iter.src[1])
                  s == slice_sort_by(c.vec, self.compare)
                  u == unwrap_sorted(Sorted(s.vec))
                  n == into_iter_next(u.buf)
              IN  IF u.panic THEN Panic(self)
                  ELSE [iter |-> Sorted(n.buf), compare |-> self.compare,
                        ret |-> n.ret, vec |-> <<>>,
                        evals |-> s.evals, pulls |-> c.pulls, panic |-> FALSE]
    ELSE LET n == into_iter_next(self.iter.buf)
         IN  [iter |-> Sorted(n.buf), compare |-> self.compare,
              ret |-> n.ret, vec |-> <<>>,
              evals |-> 0, pulls |-> 0, panic |-> FALSE]

\* Vec::from collecting the source without sorting it.
from_unsorted(self) ==
    IF self.iter.tag = "Unsorted"
    THEN IF self.iter.src = None THEN Panic(self)
         ELSE LET c == collect(self.iter.src[1])
              IN  [iter |-> Unsorted(None), compare |-> self.compare,
                   ret |-> None, vec |-> c.vec,
                   evals |-> 0, pulls |-> c.pulls, panic |-> FALSE]
    ELSE [iter |-> Sorted(<<>>), compare |-> self.compare,
          ret |-> None, vec |-> self.iter.buf,
          evals |-> 0, pulls |-> 0, panic |-> FALSE]

\* Vec::from sorting what is left of an already staged buffer once more.
from_sort_again(self) ==
    IF self.iter.tag = "Unsorted"
    THEN IF self.iter.src = None THEN Panic(self)
         ELSE LET c == collect(self.iter.src[1])
                  s == slice_sort_by(c.vec, self.compare)
              IN  [iter |-> Unsorted(None), compare |-> self.compare,
                   ret |-> None, vec |-> s.vec,
                   evals |-> s.evals, pulls |-> c.pulls, panic |-> FALSE]
    ELSE LET s == slice_sort_by(self.iter.buf, self.compare)
         IN  [iter |-> Sorted(<<>>), compare |-> self.compare,
              ret |-> None, vec |-> s.vec,
              evals |-> s.evals, pulls |-> 0, panic |-> FALSE]

\* Vec::from skipping one more element of an already staged buffer.
from_skip_one(self) ==
    IF self.iter.tag = "Unsorted"
    THEN IF self.iter.src = None THEN Panic(self)
         ELSE LET c == collect(self.iter.src[1])
                  s == slice_sort_by(c.vec, self.compare)
              IN  [iter |-> Unsorted(None), compare |-> self.compare,
                   ret |-> None, vec |-> s.vec,
                   evals |-> s.evals, pulls |-> c.pulls, panic |-> FALSE]
    ELSE [iter |-> Sorted(<<>>), compare |-> self.compare,
          ret |-> None,
          vec |-> IF self.iter.buf = <<>> THEN <<>> ELSE Tail(self.iter.buf),
          evals |-> 0, pulls |-> 0, panic |-> FALSE]

\* <Vec<I::Item> as From<SortBy>>::from; the adapter is consumed
from(self) ==
    IF self.iter.tag = "Unsorted"
    THEN IF self.iter.src = None THEN Panic(self)
         ELSE LET c == collect(self.iter.src[1])
                  s == slice_sort_by(c.vec, self.compare)
              IN  [iter |-> Unsorted(None), compare |-> self.compare,
                   ret |-> None, vec |-> s.vec,
                   evals |-> s.evals, pulls |-> c.pulls, panic |-> FALSE]
    ELSE [iter |-> Sorted(<<>>), compare |-> self.compare,
          ret |-> None, vec |-> self.iter.buf,
          evals |-> 0, pulls |-> 0, panic |-> FALSE]

\* ----------------------------------------------------------------- state
VARIABLES
    input,      \* the upstream sequence the adapter was built over
    iter,       \* SortBy.iter; nothing is left of it once Vec::from returns
    compare,    \* SortBy.compare; dropped with the adapter by Vec::from
    alive,      \* the adapter has not been consumed by Vec::from
    op,         \* the last operation performed
    ret,        \* what the last next() returned
    yielded,    \* the items next() has returned so far, in order
    vec,        \* what Vec::from returned
    staged,     \* the comparator in force when the source was drained
    nexts,      \* next() calls made
    keyEvals,   \* key-extraction calls made
    pulls,      \* pulls made on the upstream source
    panicked    \* an operation panicked

vars == <<input, iter, compare, alive, op, ret, yielded, vec, staged, nexts,
          keyEvals, pulls, panicked>>

self == [iter |-> iter, compare |-> compare]

Init ==
    \E src \in Inputs, f \in KeyFns, desc \in BOOLEAN :
        LET r == IF desc THEN sort_by_desc(src, f) ELSE sort_by(src, f)
        IN  /\ input = src
            /\ iter = r.iter
            /\ compare = r.compare
            /\ alive = TRUE
            /\ op = IF desc THEN "sort_by_desc" ELSE "sort_by"
            /\ ret = None
            /\ yielded = <<>>
            /\ vec = <<>>
            /\ staged = <<>>
            /\ nexts = 0
            /\ keyEvals = r.evals
            /\ pulls = r.pulls
            /\ panicked = FALSE

Callable == alive /\ ~panicked

CallThenSortBy ==
    /\ Callable
    /\ Len(compare) < MaxKeys
    /\ \E f \in KeyFns :
          LET r == then_sort_by(self, f)
          IN  /\ iter' = r.iter
              /\ compare' = r.compare
              /\ keyEvals' = keyEvals + r.evals
              /\ pulls' = pulls + r.pulls
    /\ op' = "then_sort_by"
    /\ UNCHANGED <<input, alive, ret, yielded, vec, staged, nexts, panicked>>

CallThenSortByDesc ==
    /\ Callable
    /\ Len(compare) < MaxKeys
    /\ \E f \in KeyFns :
          LET r == then_sort_by_desc(self, f)
          IN  /\ iter' = r.iter
              /\ compare' = r.compare
              /\ keyEvals' = keyEvals + r.evals
              /\ pulls' = pulls + r.pulls
    /\ op' = "then_sort_by_desc"
    /\ UNCHANGED <<input, alive, ret, yielded, vec, staged, nexts, panicked>>

CallNext ==
    /\ Callable
    /\ nexts < Len(input) + 1 + MaxRepeats
    /\ \E r \in {next(self)} :
           /\ iter' = r.iter
           /\ compare' = r.compare
           /\ ret' = r.ret
           /\ yielded' = IF r.ret = None THEN yielded ELSE Append(yielded, r.ret[1])
           /\ keyEvals' = keyEvals + r.evals
           /\ pulls' = pulls + r.pulls
           /\ panicked' = r.panic
           /\ staged' = IF iter.tag = "Unsorted" /\ ~r.panic THEN compare ELSE staged
    /\ op' = "next"
    /\ nexts' = nexts + 1
    /\ UNCHANGED <<input, alive, vec>>

CallFrom ==
    /\ Callable
    /\ \E r \in {from(self)} :
           /\ iter' = IF r.panic THEN iter ELSE Unsorted(None)
           /\ compare' = IF r.panic THEN compare ELSE <<>>
           /\ vec' = r.vec
           /\ keyEvals' = keyEvals + r.evals
           /\ pulls' = pulls + r.pulls
           /\ panicked' = r.panic
           /\ staged' = IF iter.tag = "Unsorted" /\ ~r.panic THEN compare ELSE staged
    /\ op' = "from"
    /\ alive' = FALSE
    /\ UNCHANGED <<input, ret, yielded, nexts>>

Next ==
    \/ CallThenSortBy
    \/ CallThenSortByDesc
    \/ CallNext
    \/ CallFrom

Spec == Init /\ [][Next]_vars

\* ------------------------------------------------------- what is observed
\* Everything handed to the caller, in the order it was handed over.
Out == yielded \o vec

\* Some next() has returned None.
Exhausted == nexts > Len(yielded)

\* The key-extraction function of a key of the chain, applied.
KeyOf(key, a) == a[key.f]

\* The key cannot order the two items.
Unorderable(key, a, b) == KeyOf(key, a).nan \/ KeyOf(key, b).nan

\* The key takes equal, ordered values on the two items.
KeyEqual(key, a, b) ==
    ~Unorderable(key, a, b) /\ KeyOf(key, a).v = KeyOf(key, b).v

\* The key, in its own direction, puts a strictly before b.
KeyBefore(key, a, b) ==
    /\ ~Unorderable(key, a, b)
    /\ IF key.desc THEN KeyOf(key, a).v > KeyOf(key, b).v
                   ELSE KeyOf(key, a).v < KeyOf(key, b).v

\* No key of the chain decides the pair: each finds it equal or unorderable.
Undecided(cmp, a, b) ==
    \A k \in 1..Len(cmp) : Unorderable(cmp[k], a, b) \/ KeyEqual(cmp[k], a, b)

\* The ordering the chain is meant to give: that of the first key, from the
\* k-th on, that decides the pair, in that key's own direction.
RECURSIVE ChainOrderFrom(_, _, _, _)
ChainOrderFrom(cmp, a, b, k) ==
    IF k > Len(cmp) THEN "Equal"
    ELSE IF KeyBefore(cmp[k], a, b) THEN "Less"
    ELSE IF KeyBefore(cmp[k], b, a) THEN "Greater"
    ELSE ChainOrderFrom(cmp, a, b, k + 1)

ChainOrder(cmp, a, b) == ChainOrderFrom(cmp, a, b, 1)

\* No key of the chain meets a NaN anywhere in the input.
TotallyOrdered(cmp) ==
    \A k \in 1..Len(cmp), i \in 1..Len(input) : ~KeyOf(cmp[k], input[i]).nan

AllAscending(cmp) == \A k \in 1..Len(cmp) : ~cmp[k].desc

\* The adapter as built over the whole input with the chain cmp.
Fresh(cmp) == [iter |-> Unsorted(Some(input)), compare |-> cmp]

\* The items next() returns when called on the adapter until it returns None.
RECURSIVE pull_all(_, _)
pull_all(adapter, fuel) ==
    LET r == next(adapter)
    IN  IF r.ret = None \/ r.panic \/ fuel = 0 THEN <<>>
        ELSE <<r.ret[1]>> \o
             pull_all([iter |-> r.iter, compare |-> r.compare], fuel - 1)

\* A step that is a call of then_sort_by or then_sort_by_desc.
ExtendStep == op' \in {"then_sort_by", "then_sort_by_desc"} /\ nexts' = nexts /\ alive'

\* ---------------------------------------------------------------- claims
\* The last operation drained and sorted the source.
JustStaged == (op = "next" /\ nexts = 1) \/ (op = "from" /\ nexts = 0)

\* The last operation built or extended a comparator that is still to be
\* consulted.
JustInstalled == op \notin {"next", "from"} /\ iter.tag = "Unsorted"

\* C1: with ascending, totally ordered keys k1..kn, the items pulled from
\* the adapter are in lexicographic order of (k1,...,kn): of two items, the
\* earlier has all n keys equal to the later's, or the smaller value at the
\* first key on which they differ; and a comparison evaluates a key only
\* when every earlier key compared equal.
C1_Lexicographic ==
    (staged # <<>> /\ AllAscending(staged) /\ TotallyOrdered(staged)) =>
        /\ op = "next" =>
              \A i, j \in 1..Len(yielded) : i < j =>
                  LET a == yielded[i]
                      b == yielded[j]
                  IN  \/ \A k \in 1..Len(staged) :
                            KeyOf(staged[k], a).v = KeyOf(staged[k], b).v
                      \/ \E k \in 1..Len(staged) :
                            /\ KeyOf(staged[k], a).v < KeyOf(staged[k], b).v
                            /\ \A m \in 1..(k - 1) :
                                  KeyOf(staged[m], a).v = KeyOf(staged[m], b).v
        /\ JustStaged =>
              \A i, j \in 1..Len(input) :
                  call(staged, input[i], input[j]).evals =
                      2 * Cardinality({k \in 1..Len(staged) : \A m \in 1..(k - 1) :
                            KeyOf(staged[m], input[i]).v = KeyOf(staged[m], input[j]).v})
        /\ Exhausted => Len(yielded) = Len(input)

\* C1 witness: two ascending ordered keys, pulled to the end, with a pair
\* tied on the first key that the second key put in order against arrival.
C1_Witness ==
    /\ Len(staged) = 2 /\ AllAscending(staged) /\ TotallyOrdered(staged)
    /\ op = "next" /\ Exhausted /\ Len(yielded) = 3
    /\ \E i, j \in 1..3 :
          /\ i < j
          /\ KeyEqual(staged[1], yielded[i], yielded[j])
          /\ KeyBefore(staged[2], yielded[i], yielded[j])
          /\ yielded[i].id > yielded[j].id

\* C2: stability. Whatever the chain, two items with equal values on every
\* key leave the adapter, by next() or by Vec::from, in the order in which
\* they arrived.
C2_Stable ==
    op \in {"next", "from"} =>
        \A o \in {Out} : \A i \in 1..Len(o) : \A j \in (i + 1)..Len(o) :
            (\A k \in 1..Len(staged) : KeyEqual(staged[k], o[i], o[j]))
                => o[i].id < o[j].id

\* C2 witness: a descending key on which two items tie, both handed over,
\* one by next() and one by Vec::from.
C2_Witness ==
    /\ staged # <<>> /\ staged[1].desc
    /\ Len(yielded) >= 1 /\ Len(vec) >= 1
    /\ \E i \in 1..Len(yielded), j \in 1..Len(vec) :
          \A k \in 1..Len(staged) : KeyEqual(staged[k], yielded[i], vec[j])

\* C3: a descending key inverts only its own comparison. On items the keys
\* can order, a chain holding a descending key compares as its first
\* deciding key does in that key's own direction, and the items leave the
\* adapter in that order.
C3_DescendingScope ==
    /\ (JustInstalled /\ \E k \in 1..Len(compare) : compare[k].desc) =>
          \A i, j \in 1..Len(input) :
              (\A k \in 1..Len(compare) : ~Unorderable(compare[k], input[i], input[j]))
                  => call(compare, input[i], input[j]).ord =
                         ChainOrder(compare, input[i], input[j])
    /\ (/\ op \in {"next", "from"}
        /\ \E k \in 1..Len(staged) : staged[k].desc
        /\ TotallyOrdered(staged)) =>
          \A o \in {Out} : \A i \in 1..Len(o) : \A j \in (i + 1)..Len(o) :
              ChainOrder(staged, o[i], o[j]) # "Greater"

\* C3 witness: sort_by_desc(age).then_sort_by(name), drained, with two ages
\* in decreasing order and names increasing within an age.
C3_Witness ==
    /\ staged = <<[f |-> "age", desc |-> TRUE], [f |-> "name", desc |-> FALSE]>>
    /\ TotallyOrdered(staged)
    /\ Len(Out) = 3
    /\ Out[1].age.v > Out[3].age.v
    /\ \E i \in 1..2 : /\ Out[i].age = Out[i + 1].age
                        /\ Out[i].name.v < Out[i + 1].name.v
                        /\ Out[i].id > Out[i + 1].id

\* C4: lazy staging. Until the first next() or Vec::from, whatever keys have
\* been installed, no key-extraction function has run, the source has not
\* been pulled, and the adapter is Unsorted and still holds its source.
C4_Lazy ==
    (nexts = 0 /\ alive) =>
        /\ keyEvals = 0
        /\ pulls = 0
        /\ iter = Unsorted(Some(input))

\* C4 witness: a chain extended by then_sort_by over a non-empty source,
\* nothing consumed yet.
C4_Witness ==
    /\ nexts = 0 /\ alive
    /\ op = "then_sort_by" /\ Len(compare) >= 2
    /\ Len(input) >= 2

\* C5: Vec::from on a not yet staged adapter returns exactly the sequence
\* that pulling the same adapter with next() until None returns, and the
\* i-th next() returns the i-th element of that sequence.
C5_FromEqualsPulls ==
    /\ (op = "from" /\ nexts = 0) =>
          vec = pull_all(Fresh(staged), Len(input) + 1)
    /\ op = "next" =>
          \A whole \in {from(Fresh(staged)).vec} :
              IF nexts <= Len(whole)
              THEN ret = Some(whole[nexts]) /\ Len(yielded) = nexts
              ELSE ret = None /\ Len(yielded) = Len(whole)

\* C5 witness: a direct conversion of three items that had to be reordered.
C5_Witness ==
    /\ op = "from" /\ nexts = 0
    /\ Len(vec) = 3 /\ vec # input

\* C6: Vec::from after k >= 1 calls of next() returns the elements at
\* positions k+1..n of the fully sorted order, in that order (none when
\* k >= n), and none that next() has already returned.
C6_Remainder ==
    (op = "from" /\ nexts >= 1) =>
        \A whole \in {from(Fresh(staged)).vec} :
            /\ vec = IF nexts >= Len(input) THEN <<>>
                     ELSE SubSeq(whole, nexts + 1, Len(input))
            /\ \A i \in 1..Len(vec), j \in 1..Len(yielded) :
                  vec[i].id # yielded[j].id

\* C6 witness: one item pulled, then a conversion returning the other two.
C6_Witness ==
    /\ op = "from" /\ nexts = 1
    /\ Len(input) = 3 /\ Len(vec) = 2
    /\ yielded # <<input[1]>>

\* C7: once next() has returned None, every later next() returns None too:
\* it does not panic, yields nothing, evaluates no key and pulls nothing
\* from the source; and next() returns None once n items have been pulled.
C7_EndIsFinal ==
    /\ [](nexts > Len(input) => ret = None)
    /\ [][(Exhausted /\ nexts' = nexts + 1) =>
            /\ ret' = None
            /\ ~panicked'
            /\ yielded' = yielded
            /\ iter' = iter
            /\ keyEvals' = keyEvals
            /\ pulls' = pulls]_vars

\* C7 witness: a non-empty input pulled to the end and next() called again
\* after the first None.
C7_Witness ==
    /\ op = "next" /\ Len(input) >= 2
    /\ nexts = Len(input) + 2
    /\ ret = None

\* C8: over an empty source the first next() returns None and Vec::from
\* returns an empty collection, with no panic and no key evaluated.
C8_EmptyInput ==
    Len(input) = 0 =>
        /\ nexts >= 1 => (ret = None /\ yielded = <<>>)
        /\ ~alive => vec = <<>>
        /\ ~panicked
        /\ keyEvals = 0

\* C8 witness: the first next() on an adapter over an empty source.
C8_Witness ==
    /\ Len(input) = 0
    /\ op = "next" /\ nexts = 1

C11_OneWay ==
    /\ [](alive =>
            /\ (nexts = 0) <=> (iter.tag = "Unsorted")
            /\ iter.tag = "Unsorted" => (iter.src = Some(input) /\ iter.buf = <<>>)
            /\ iter.tag = "Sorted" => iter.src = None)
    /\ [][(iter.tag = "Sorted" /\ alive') => iter'.tag = "Sorted"]_vars

\* C11 witness: a staged adapter that was extended and pulled again.
C11_Witness ==
    /\ alive /\ op = "next" /\ nexts >= 2
    /\ Len(compare) > Len(staged)
    /\ iter.tag = "Sorted"

\* C12: staging loses and invents nothing. What k calls of next() and then
\* Vec::from hand over is a permutation of the upstream sequence: as many
\* items, each one an item of the source, none twice; and next() alone
\* never yields an item twice or one the source did not hold.
C12_Permutation ==
    op \in {"next", "from"} =>
        \A o \in {Out} :
            /\ \A i \in 1..Len(o) :
                  /\ o[i].id \in 1..Len(input)
                  /\ o[i] = input[o[i].id]
                  /\ \A j \in (i + 1)..Len(o) : o[j].id # o[i].id
            /\ Len(o) <= Len(input)
            /\ (~alive \/ Exhausted) => Len(o) = Len(input)

\* C12 witness: two items pulled, the third returned by Vec::from, in an
\* order that is not the order of arrival.
C12_Witness ==
    /\ op = "from" /\ Len(yielded) = 2 /\ Len(vec) = 1
    /\ Out # input

\* C13: the source is drained once and whole. Nothing is pulled before the
\* first next() or Vec::from; that call pulls every item and the end of the
\* source before anything is handed over; and no later call pulls again,
\* so the number of pulls does not depend on how much the caller consumes.
C13_DrainedOnce ==
    /\ (nexts = 0 /\ alive) => pulls = 0
    /\ (nexts > 0 \/ ~alive) => pulls = Len(input) + 1
    /\ (alive /\ iter.tag = "Sorted") => iter.src = None /\ staged # <<>>

\* C13 witness: one item of three consumed, the source already drained.
C13_Witness ==
    /\ op = "next" /\ nexts = 1 /\ alive
    /\ Len(input) = 3 /\ Len(yielded) = 1
    /\ pulls = 4

\* C14: the comparator is consulted only while staging. Once the adapter is
\* Sorted, no next(), no Vec::from and no key extension evaluates a
\* key-extraction function: the count of key evaluations stays what it was.
C14_ComparedOnce ==
    [][iter.tag = "Sorted" => keyEvals' = keyEvals]_vars

\* C14 witness: a conversion of a staged adapter that still held two items,
\* after a staging that did compare.
C14_Witness ==
    /\ op = "from" /\ nexts >= 1
    /\ Len(vec) >= 2
    /\ keyEvals > 0

\* C15: then_sort_by and then_sort_by_desc change the comparator alone. The
\* staging state is carried over as it is - the same source when Unsorted,
\* the same buffered items in the same order when Sorted - nothing is
\* yielded, pulled or evaluated, and the keys installed before keep their
\* priority: the new key comes last, and whatever the old comparator
\* decided for a pair the new one decides the same way.
C15_ExtensionFrame ==
    [][ExtendStep =>
          /\ iter' = iter
          /\ Len(compare') = Len(compare) + 1
          /\ SubSeq(compare', 1, Len(compare)) = compare
          /\ UNCHANGED <<input, alive, ret, yielded, vec, staged, nexts,
                         keyEvals, pulls, panicked>>
          /\ \A i, j \in 1..Len(input) :
                \A c \in {call(compare, input[i], input[j]).ord} :
                    c # "Equal" => call(compare', input[i], input[j]).ord = c]_vars

\* C15 witness: then_sort_by_desc on a staged adapter with items still
\* buffered.
C15_Witness ==
    /\ op = "then_sort_by_desc" /\ nexts >= 1
    /\ iter.tag = "Sorted" /\ iter.buf # <<>>
    /\ Len(input) = 3

\* C16: the panics cannot be reached through the public operations. No
\* operation has panicked, and in every state the adapter can be called in,
\* neither next() nor Vec::from would: the state is never Unsorted with its
\* source already taken, and unwrap_sorted is only reached on Sorted.
C16_NoPanic ==
    /\ ~panicked
    /\ alive =>
          /\ ~(iter.tag = "Unsorted" /\ iter.src = None)
          /\ ~next(self).panic
          /\ ~from(self).panic

\* C16 witness: a first next() on a chain of two keys, which took the
\* source, set the state and went through unwrap_sorted.
C16_Witness ==
    /\ op = "next" /\ nexts = 1
    /\ Len(staged) = 2
    /\ ret # None
    /\ ~panicked
====
